---- MODULE Spec2Model ----
(***************************************************************************)
(* Model of LearningAdjuster (src/adjuster.py): the Schedule and Progress  *)
(* stores, their persisted copies, and the operations complete_task,       *)
(* adjust_schedule, get_recommendations, get_stats and get_today_tasks.    *)
(*                                                                         *)
(* Conventions                                                             *)
(*  - A dict key that may be missing is an option: <<>> when the key is    *)
(*    absent, <<v>> when it holds v.  Get(o, d) is dict.get(key, d).       *)
(*  - A calendar date is a day number (an integer; negative days lie       *)
(*    before day 0).  A date string is DateStr(d) when it parses to day d  *)
(*    and BadDateStr when parsing it raises ValueError.                    *)
(*  - completion_rate_percent is held in tenths of a percent (70.0 is      *)
(*    700), hours in whole hours, average_daily_hours in hundredths.       *)
(*  - The wall clock is the variable today; one call reads the same date   *)
(*    at each of its datetime.now() calls, and Tick moves to the next day  *)
(*    between calls.                                                       *)
(*  - A list-valued key that is missing ("daily_log", "tasks",             *)
(*    "phase_progress", "daily_tasks") reads as the empty list/dict, as    *)
(*    every .get(key, []) in the source does.                              *)
(***************************************************************************)
EXTENDS Integers, Sequences, FiniteSets, TLC

VARIABLES
  today,          \* the calendar date datetime.now() gives
  schedule,       \* self.schedule
  progress,       \* self.progress
  disk_schedule,  \* the schedule file: None when it does not exist
  disk_progress,  \* the progress file: None when it does not exist
  ret,            \* the last operation and what it returned or raised
  before,         \* history: the stores as they were when the last operation began
  peer            \* a second process over the same files: None until it has
                  \* constructed its LearningAdjuster, then its schedule and progress

vars == <<today, schedule, progress, disk_schedule, disk_progress, ret, before, peer>>

----------------------------------------------------------------------------
(* Bounds *)

MaxDay == 2          \* the clock runs over days 0..MaxDay
MaxLog == 2          \* complete_task is not called once daily_log has MaxLog entries
MaxDuration == 60    \* increase_difficulty is not applied past this duration
MaxStreakLog == 3    \* the bound on daily_log in the specification SpecStreak

----------------------------------------------------------------------------
(* Options and dates *)

None == <<>>

Some(v) == <<v>>

Get(o, d) == IF o = <<>> THEN d ELSE o[1]

DateStr(d) == [ok |-> TRUE, day |-> d]

BadDateStr == [ok |-> FALSE, day |-> 0]

Weekdays == <<"monday", "tuesday", "wednesday", "thursday", "friday",
              "saturday", "sunday">>

\* strftime("%A").lower() of a day; day 0 is taken to be a Monday
DayName(d) == Weekdays[(d % 7) + 1]

RECURSIVE SumSeq(_)
SumSeq(s) == IF s = <<>> THEN 0 ELSE s[1] + SumSeq(Tail(s))

RECURSIVE SelectSeqIdx(_, _)
\* the subsequence of s at the indices in keep, in order
SelectSeqIdx(s, keep) ==
  IF s = <<>> THEN <<>>
  ELSE LET n == Len(s)
           front == SelectSeqIdx(SubSeq(s, 1, n - 1), keep)
       IN IF n \in keep THEN Append(front, s[n]) ELSE front

\* round(n / m) to the nearest integer, ties to even, for n >= 0, m > 0
RoundHalfEven(n, m) ==
  LET q == n \div m
      r == n % m
  IN IF 2 * r > m \/ (2 * r = m /\ q % 2 = 1) THEN q + 1 ELSE q

Min(a, b) == IF a < b THEN a ELSE b

----------------------------------------------------------------------------
(* The stores *)

\* overall_stats with no key set: the {} default of .get("overall_stats", {})
EmptyStats ==
  [total_tasks_completed |-> None, total_hours_studied |-> None,
   current_streak_days |-> None, longest_streak_days |-> None,
   completion_rate_percent |-> None, average_daily_hours |-> None]

\* the {} that _load_json returns for a missing progress file
EmptyProgress ==
  [overall_stats |-> None, daily_log |-> <<>>, start_date |-> None,
   phase_progress |-> <<>>, last_updated |-> None]

\* the {} that _load_json returns for a missing schedule file
EmptySchedule == [current_phase |-> None, daily_tasks |-> <<>>]

\* _load_json: the stored document, or {} when the file does not exist
LoadJson(disk, empty) == Get(disk, empty)

----------------------------------------------------------------------------
(* Schedule helpers *)

\* a Task: id, priority (optional), duration_minutes (optional)
Task(id, priority, duration) ==
  [id |-> id, priority |-> priority, duration_minutes |-> duration]

\* one entry of daily_tasks: the weekday key and its DaySchedule
DayData(day, focus, tasks) == [day |-> day, focus |-> focus, tasks |-> tasks]

\* variant of TotalScheduledPerWeek that counts the scheduled days
ScheduledDaysPerWeek(sched) == Len(sched.daily_tasks)

\* sum(len(day_data.get("tasks", [])) for day_data in daily_tasks.values())
TotalScheduledPerWeek(sched) ==
  SumSeq([i \in 1..Len(sched.daily_tasks) |-> Len(sched.daily_tasks[i].tasks)])

----------------------------------------------------------------------------
(* _update_completion_rate(stats): the new stats dict, or raised when         *)
(* strptime(start_date) raises.  An empty start_date string is falsy and is   *)
(* the absent case.                                                           *)

\* variant of CompletionRate without the min(100, ...) clamp
CompletionRateUnclamped(completed, expected) ==
  RoundHalfEven(completed * 1000, expected)

\* round(min(100, completed / expected * 100), 1), in tenths of a percent
CompletionRate(completed, expected) ==
  IF completed >= expected THEN 1000
  ELSE RoundHalfEven(completed * 1000, expected)

\* int(total * max(1, days_elapsed / 7))
ExpectedTasks(total, days_elapsed) ==
  IF days_elapsed <= 7 THEN total ELSE (total * days_elapsed) \div 7

UpdateCompletionRate(stats, prog, sched, now) ==
  LET total_scheduled_per_week == TotalScheduledPerWeek(sched)
  IN IF total_scheduled_per_week = 0
       THEN [stats |-> stats, raised |-> FALSE]
     ELSE IF prog.start_date = None
       THEN [stats |-> stats, raised |-> FALSE]
     ELSE IF ~prog.start_date[1].ok
       THEN [stats |-> stats, raised |-> TRUE]
     ELSE
       LET days_elapsed == (now - prog.start_date[1].day) + 1
           expected_tasks == ExpectedTasks(total_scheduled_per_week, days_elapsed)
           completed_tasks == Get(stats.total_tasks_completed, 0)
       IN IF expected_tasks > 0
            THEN [stats |-> [stats EXCEPT !.completion_rate_percent =
                               Some(CompletionRate(completed_tasks, expected_tasks))],
                  raised |-> FALSE]
            ELSE [stats |-> stats, raised |-> FALSE]

----------------------------------------------------------------------------
(* _update_streak(): the new Progress store, or raised when fromisoformat     *)
(* raises on a log entry's date.                                              *)

\* variant of StreakAfterActivityToday without the "streak is 0" bootstrap
StreakOnlyAfterYesterday(stats, daily_log, now) ==
  LET yesterday == now - 1
      yesterday_activities ==
        {i \in 1..Len(daily_log) : daily_log[i].date.day = yesterday}
  IN IF yesterday_activities # {}
       THEN [stats EXCEPT !.current_streak_days =
                            Some(Get(stats.current_streak_days, 0) + 1)]
       ELSE stats

\* variant of StreakAfterActivityToday that counts a day once: no increment
\* when the log holds an earlier entry dated today
StreakOncePerDay(stats, daily_log, now) ==
  LET yesterday == now - 1
      yesterday_activities ==
        {i \in 1..Len(daily_log) : daily_log[i].date.day = yesterday}
      today_activities ==
        {i \in 1..Len(daily_log) : daily_log[i].date.day = now}
  IN IF Cardinality(today_activities) = 1
          /\ (yesterday_activities # {} \/ Get(stats.current_streak_days, 0) = 0)
       THEN [stats EXCEPT !.current_streak_days =
                            Some(Get(stats.current_streak_days, 0) + 1)]
       ELSE stats

\* the yesterday/zero test of line 115 and the increment of line 116
StreakAfterActivityToday(stats, daily_log, now) ==
  LET yesterday == now - 1
      yesterday_activities ==
        {i \in 1..Len(daily_log) : daily_log[i].date.day = yesterday}
  IN IF yesterday_activities # {} \/ Get(stats.current_streak_days, 0) = 0
       THEN [stats EXCEPT !.current_streak_days =
                            Some(Get(stats.current_streak_days, 0) + 1)]
       ELSE stats

\* lines 117-120: the last entry is not dated today
StreakAfterNoActivityToday(stats, last_activity, now) ==
  IF now - last_activity > 1
    THEN [stats EXCEPT !.current_streak_days = Some(0)]
    ELSE stats

\* variant of UpdateLongestStreak that raises the longest streak only from 0
LongestStreakSetOnce(stats) ==
  IF Get(stats.current_streak_days, 0) > Get(stats.longest_streak_days, 0)
       /\ Get(stats.longest_streak_days, 0) = 0
    THEN [stats EXCEPT !.longest_streak_days = stats.current_streak_days]
    ELSE stats

\* lines 122-124
UpdateLongestStreak(stats) ==
  IF Get(stats.current_streak_days, 0) > Get(stats.longest_streak_days, 0)
    THEN [stats EXCEPT !.longest_streak_days = stats.current_streak_days]
    ELSE stats

UpdateStreak(prog, now) ==
  LET stats == Get(prog.overall_stats, EmptyStats)
      daily_log == prog.daily_log
  IN IF daily_log = <<>>
       THEN [progress |-> prog, raised |-> FALSE]
     ELSE IF ~daily_log[Len(daily_log)].date.ok
       THEN [progress |-> prog, raised |-> TRUE]
     ELSE
       LET last_activity == daily_log[Len(daily_log)].date.day
       IN IF last_activity = now /\ \E i \in 1..Len(daily_log) : ~daily_log[i].date.ok
            THEN [progress |-> prog, raised |-> TRUE]
          ELSE
            LET stats1 == IF last_activity = now
                            THEN StreakAfterActivityToday(stats, daily_log, now)
                            ELSE StreakAfterNoActivityToday(stats, last_activity, now)
            IN [progress |-> [prog EXCEPT !.overall_stats =
                                            Some(UpdateLongestStreak(stats1))],
                raised |-> FALSE]

----------------------------------------------------------------------------
(* complete_task(task_id, hours_spent, difficulty_rating)                     *)
(* hours_spent and difficulty_rating are options (None is Python's None).     *)
(* The result holds the in-memory store the call leaves behind, whether it    *)
(* raised, and, when it did not, the same store as the document saved.        *)

LogEntry(now, task_id, hours_spent, difficulty_rating) ==
  [date |-> DateStr(now), task_id |-> task_id,
   hours_spent |-> Get(hours_spent, 0),
   difficulty_rating |-> difficulty_rating]

\* lines 73-78 on the dict that .get("overall_stats", {}) returned
CountCompletion(stats, hours_spent) ==
  LET counted == [stats EXCEPT !.total_tasks_completed =
                                 Some(Get(stats.total_tasks_completed, 0) + 1)]
  IN IF Get(hours_spent, 0) # 0
       THEN [counted EXCEPT !.total_hours_studied =
                              Some(Get(stats.total_hours_studied, 0) + hours_spent[1])]
       ELSE counted

\* The dict of line 73 is the stored overall_stats when that key exists, and a
\* new dict that no key of self.progress refers to when it does not: writes to
\* it reach the store only in the first case.
StoreStats(prog, stats) ==
  IF prog.overall_stats # None
    THEN [prog EXCEPT !.overall_stats = Some(stats)]
    ELSE prog

\* variant of AppendLog that puts the newest entry first
PrependLog(daily_log, log_entry) == <<log_entry>> \o daily_log

\* lines 68-70
AppendLog(daily_log, log_entry) == Append(daily_log, log_entry)

CompleteTaskResult(prog, sched, now, task_id, hours_spent, difficulty_rating) ==
  LET logged == [prog EXCEPT !.daily_log =
                   AppendLog(prog.daily_log,
                             LogEntry(now, task_id, hours_spent, difficulty_rating))]
      stats == CountCompletion(Get(logged.overall_stats, EmptyStats), hours_spent)
      counted == StoreStats(logged, stats)
      rated == UpdateCompletionRate(stats, counted, sched, now)
  IN IF rated.raised
       THEN [progress |-> counted, raised |-> TRUE]
     ELSE
       LET streaked == UpdateStreak(StoreStats(counted, rated.stats), now)
       IN IF streaked.raised
            THEN [progress |-> streaked.progress, raised |-> TRUE]
            ELSE [progress |-> [streaked.progress EXCEPT !.last_updated = Some(now)],
                  raised |-> FALSE]

----------------------------------------------------------------------------
(* get_recommendations() *)

Recommendation(type, priority, action) ==
  [type |-> type, priority |-> priority, action |-> action]

\* variant of WorkloadRecommendations with the thresholds included
WorkloadRecommendationsInclusive(stats) ==
  LET completion_rate == Get(stats.completion_rate_percent, 0)
  IN IF completion_rate <= 700
       THEN <<Recommendation("workload", "high", "reduce_tasks")>>
     ELSE IF completion_rate >= 900
       THEN <<Recommendation("workload", "medium", "increase_difficulty")>>
     ELSE <<>>

\* lines 161-180
WorkloadRecommendations(stats) ==
  LET completion_rate == Get(stats.completion_rate_percent, 0)
  IN IF completion_rate < 700
       THEN <<Recommendation("workload", "high", "reduce_tasks")>>
     ELSE IF completion_rate > 900
       THEN <<Recommendation("workload", "medium", "increase_difficulty")>>
     ELSE <<>>

\* variant of StreakRecommendations that asks for a streak of 2 before it is
\* silent
StreakRecommendationsBelowTwo(stats) ==
  LET current_streak == Get(stats.current_streak_days, 0)
  IN IF current_streak >= 7
       THEN <<Recommendation("motivation", "info", "maintain")>>
     ELSE IF current_streak <= 1
       THEN <<Recommendation("motivation", "high", "start_streak")>>
     ELSE <<>>

\* lines 182-201
StreakRecommendations(stats) ==
  LET current_streak == Get(stats.current_streak_days, 0)
  IN IF current_streak >= 7
       THEN <<Recommendation("motivation", "info", "maintain")>>
     ELSE IF current_streak = 0
       THEN <<Recommendation("motivation", "high", "start_streak")>>
     ELSE <<>>

\* lines 203-216: one recommendation per phase_progress key of the current
\* phase whose progress_percent is at least 80
PhaseRecommendations(prog, sched) ==
  LET current_phase == Get(sched.current_phase, 1)
      ready == {i \in 1..Len(prog.phase_progress) :
                  /\ prog.phase_progress[i].phase = current_phase
                  /\ Get(prog.phase_progress[i].progress_percent, 0) >= 80}
  IN [i \in 1..Cardinality(ready) |->
        Recommendation("progression", "medium", "advance_phase")]

GetRecommendations(prog, sched) ==
  LET stats == Get(prog.overall_stats, EmptyStats)
  IN WorkloadRecommendations(stats) \o StreakRecommendations(stats)
       \o PhaseRecommendations(prog, sched)

----------------------------------------------------------------------------
(* get_stats() *)

\* round(total_hours / days_active, 2), in hundredths of an hour
AverageDailyHours(total_hours, daily_log) ==
  LET days_active == Cardinality({daily_log[i].date.day : i \in 1..Len(daily_log)})
  IN IF days_active > 0 THEN RoundHalfEven(total_hours * 100, days_active) ELSE 0

\* lines 222-236: the overall dict get_stats returns
StatsWithAverage(prog) ==
  LET stats == Get(prog.overall_stats, EmptyStats)
  IN IF prog.daily_log # <<>>
       THEN [stats EXCEPT !.average_daily_hours =
               Some(AverageDailyHours(Get(stats.total_hours_studied, 0), prog.daily_log))]
       ELSE stats

\* lines 238-244
PhaseSummaries(prog) ==
  [i \in 1..Len(prog.phase_progress) |->
     [phase |-> prog.phase_progress[i].phase,
      name |-> prog.phase_progress[i].name,
      status |-> Get(prog.phase_progress[i].status, "not_started"),
      progress |-> Get(prog.phase_progress[i].progress_percent, 0)]]

\* fromisoformat of line 231 raises on a log entry whose date does not parse
GetStatsRaises(prog) ==
  \E i \in 1..Len(prog.daily_log) : ~prog.daily_log[i].date.ok

\* the store get_stats leaves in memory: line 234 writes into the dict of line
\* 222, which is the stored overall_stats when that key exists
GetStatsProgress(prog) == StoreStats(prog, StatsWithAverage(prog))

----------------------------------------------------------------------------
(* get_today_tasks() *)

GetTodayTasks(sched, now) ==
  LET day_name == DayName(now)
      found == {i \in 1..Len(sched.daily_tasks) : sched.daily_tasks[i].day = day_name}
  IN IF found = {}
       THEN [day |-> day_name, focus |-> "general", tasks |-> <<>>]
       ELSE LET today_schedule == sched.daily_tasks[CHOOSE i \in found : TRUE]
            IN [day |-> day_name,
                focus |-> Get(today_schedule.focus, "general"),
                tasks |-> today_schedule.tasks]

----------------------------------------------------------------------------
(* adjust_schedule(adjustment_type) *)

\* variant of WithoutLowPriority that takes a task without priority for low
WithoutLowOrUnset(tasks) ==
  SelectSeqIdx(tasks, {i \in 1..Len(tasks) :
                         Get(tasks[i].priority, "low") # "low"})

\* line 254
WithoutLowPriority(tasks) ==
  SelectSeqIdx(tasks, {i \in 1..Len(tasks) : tasks[i].priority # Some("low")})

\* variant of ScaleDuration that truncates the factor, not the product
ScaleDurationTruncatedFactor(duration) == duration * 1

\* int(duration * 1.2); the product of an integer below 2000 and 1.2, truncated,
\* is the integer quotient of 12 * duration by 10
ScaleDuration(duration) == (duration * 12) \div 10

\* lines 260-262
HarderTask(task) ==
  [task EXCEPT !.duration_minutes = Some(ScaleDuration(Get(task.duration_minutes, 60)))]

\* variant of NextPhase without the cap at 4
NextPhaseUncapped(current_phase) == current_phase + 1

\* lines 265-266
NextPhase(current_phase) == Min(current_phase + 1, 4)

\* variant of AdjustSchedule whose last branch is an else, not an elif
AdjustScheduleElseAdvance(sched, adjustment_type) ==
  IF adjustment_type = "reduce_tasks"
    THEN [sched EXCEPT !.daily_tasks =
            [i \in 1..Len(sched.daily_tasks) |->
               [sched.daily_tasks[i] EXCEPT !.tasks = WithoutLowPriority(@)]]]
  ELSE IF adjustment_type = "increase_difficulty"
    THEN [sched EXCEPT !.daily_tasks =
            [i \in 1..Len(sched.daily_tasks) |->
               [sched.daily_tasks[i] EXCEPT !.tasks =
                  [j \in 1..Len(@) |-> HarderTask(@[j])]]]]
  ELSE [sched EXCEPT !.current_phase = Some(NextPhase(Get(sched.current_phase, 1)))]

AdjustSchedule(sched, adjustment_type) ==
  IF adjustment_type = "reduce_tasks"
    THEN [sched EXCEPT !.daily_tasks =
            [i \in 1..Len(sched.daily_tasks) |->
               [sched.daily_tasks[i] EXCEPT !.tasks = WithoutLowPriority(@)]]]
  ELSE IF adjustment_type = "increase_difficulty"
    THEN [sched EXCEPT !.daily_tasks =
            [i \in 1..Len(sched.daily_tasks) |->
               [sched.daily_tasks[i] EXCEPT !.tasks =
                  [j \in 1..Len(@) |-> HarderTask(@[j])]]]]
  ELSE IF adjustment_type = "advance_phase"
    THEN [sched EXCEPT !.current_phase = Some(NextPhase(Get(sched.current_phase, 1)))]
  ELSE sched

\* the longest duration_minutes in the schedule (60 where the key is absent)
RECURSIVE MaxOfSeq(_)
MaxOfSeq(s) ==
  IF s = <<>> THEN 0
  ELSE LET m == MaxOfSeq(Tail(s)) IN IF s[1] > m THEN s[1] ELSE m

LongestDuration(sched) ==
  MaxOfSeq([i \in 1..Len(sched.daily_tasks) |->
              MaxOfSeq([j \in 1..Len(sched.daily_tasks[i].tasks) |->
                          Get(sched.daily_tasks[i].tasks[j].duration_minutes, 60)])])

----------------------------------------------------------------------------
(* Inputs and initial documents *)

\* (task_id, hours_spent, difficulty_rating) of a complete_task call
CompleteArgs ==
  {<<"t1", None, None>>, <<"t1", Some(0), Some(5)>>, <<"zz", Some(2), Some(3)>>}

AdjustmentTypes == {"reduce_tasks", "increase_difficulty", "advance_phase", "unknown"}

ScheduleA ==
  [current_phase |-> Some(3),
   daily_tasks |->
     <<DayData("monday", Some("math"),
               <<Task("t1", Some("high"), Some(60)), Task("t2", Some("low"), Some(25))>>),
       DayData("tuesday", None, <<Task("t3", None, None)>>)>>]

ScheduleB ==
  [current_phase |-> Some(4),
   daily_tasks |->
     <<DayData("monday", None, <<>>),
       DayData("wednesday", Some("review"), <<Task("t4", Some("low"), Some(90))>>)>>]

Stats(total, hours, current, longest, rate) ==
  [total_tasks_completed |-> total, total_hours_studied |-> hours,
   current_streak_days |-> current, longest_streak_days |-> longest,
   completion_rate_percent |-> rate, average_daily_hours |-> None]

OldEntry(date) ==
  [date |-> date, task_id |-> "t0", hours_spent |-> 1, difficulty_rating |-> None]

PhaseStatus(phase, name, status, percent) ==
  [phase |-> phase, name |-> name, status |-> status, progress_percent |-> percent]

PhasesA ==
  <<PhaseStatus(3, "basics", Some("in_progress"), Some(80)),
    PhaseStatus(3, "practice", None, Some(90)),
    PhaseStatus(4, "projects", Some("completed"), Some(79))>>

Progress(stats, daily_log, start_date, phase_progress) ==
  [overall_stats |-> stats, daily_log |-> daily_log, start_date |-> start_date,
   phase_progress |-> phase_progress, last_updated |-> None]

\* The progress files the adjuster starts from: missing (first run), or a
\* document of the data model, with or without overall_stats, with a log entry
\* of the day before day 0, a start_date today, ten days ago or absent, and
\* the two kinds of malformed date.

FirstRun == None

StartOnly == Some(Progress(None, <<>>, Some(DateStr(0)), <<>>))

NoStreakYet ==
  Some(Progress(Some(Stats(Some(3), None, None, Some(2), None)),
                <<OldEntry(DateStr(-1))>>, Some(DateStr(0)), PhasesA))

StreakAboveLongest ==
  Some(Progress(Some(Stats(Some(2), Some(3), Some(2), Some(1), Some(650))),
                <<OldEntry(DateStr(-1))>>, Some(DateStr(-10)), <<>>))

NoStartDate ==
  Some(Progress(Some(Stats(Some(4), Some(0), Some(1), Some(3), Some(1000))),
                <<OldEntry(DateStr(-1))>>, None, <<>>))

BadStartDate ==
  Some(Progress(Some(Stats(Some(1), Some(1), Some(1), Some(1), Some(500))),
                <<>>, Some(BadDateStr), <<>>))

BadLogDate ==
  Some(Progress(Some(Stats(Some(1), Some(1), Some(1), Some(1), None)),
                <<OldEntry(BadDateStr)>>, Some(DateStr(0)), <<>>))

\* a log that already holds four entries, of the four days before day 0
LongLog == [i \in 1..4 |-> OldEntry(DateStr(i - 5))]

\* documents of a long-time user at and around the recommendation thresholds
ThresholdFiles ==
  {Some(Progress(Some(Stats(Some(7), Some(9), Some(streak), Some(7), Some(rate))),
                 LongLog, None, PhasesA)) :
     rate \in {699, 700, 900, 901}, streak \in {0, 7}}

\* the pairs of files the adjuster starts from
InitFiles ==
  ({Some(ScheduleA)} \X {StreakAboveLongest, NoStartDate, BadLogDate})
    \cup ({Some(ScheduleA)} \X ThresholdFiles)
    \cup ({Some(ScheduleB)} \X {FirstRun, StartOnly, NoStreakYet, BadStartDate})
    \cup ({None} \X {StreakAboveLongest})

----------------------------------------------------------------------------
(* The state machine *)

Snapshot == [progress |-> progress, schedule |-> schedule,
             disk_progress |-> disk_progress, disk_schedule |-> disk_schedule,
             today |-> today, peer |-> peer]

Returned(op, arg, value) == [op |-> op, arg |-> arg, status |-> "success", value |-> value]

Raised(op, arg) == [op |-> op, arg |-> arg, status |-> "error", value |-> <<>>]

\* __init__ of a new LearningAdjuster over the two files
Constructed(sf, pf) ==
  /\ disk_schedule = sf
  /\ disk_progress = pf
  /\ schedule = LoadJson(sf, EmptySchedule)
  /\ progress = LoadJson(pf, EmptyProgress)

Init ==
  /\ today = 0
  /\ \E f \in InitFiles : Constructed(f[1], f[2])
  /\ ret = Returned("init", <<>>, <<>>)
  /\ peer = None
  /\ before = Snapshot

\* midnight passes between two calls
Tick ==
  /\ today < MaxDay
  /\ today' = today + 1
  /\ ret' = Returned("tick", <<>>, <<>>)
  /\ before' = Snapshot
  /\ UNCHANGED <<schedule, progress, disk_schedule, disk_progress, peer>>

\* a new process: main() constructs a LearningAdjuster from the files
Load ==
  /\ schedule' = LoadJson(disk_schedule, EmptySchedule)
  /\ progress' = LoadJson(disk_progress, EmptyProgress)
  /\ ret' = Returned("init", <<>>, <<>>)
  /\ before' = Snapshot
  /\ UNCHANGED <<today, disk_schedule, disk_progress, peer>>

\* variant of WorkingCopy that reads the file again before the update
WorkingCopyReloaded(memory, disk) == LoadJson(disk, EmptyProgress)

\* the store complete_task updates and saves: self.progress as loaded by
\* __init__ (line 32); the file is not read again
WorkingCopy(memory, disk) == memory

\* one complete_task call of the process
CompleteTaskStep(task_id, hours_spent, difficulty_rating) ==
  LET res == CompleteTaskResult(WorkingCopy(progress, disk_progress), schedule, today, task_id, hours_spent,
                                difficulty_rating)
  IN /\ progress' = res.progress
     /\ disk_progress' = IF res.raised THEN disk_progress ELSE Some(res.progress)
     /\ ret' = IF res.raised THEN Raised("complete_task", task_id)
               ELSE Returned("complete_task", task_id, "Task completed!")
     /\ before' = Snapshot
     /\ UNCHANGED <<today, schedule, disk_schedule, peer>>

CompleteTask(task_id, hours_spent, difficulty_rating) ==
  /\ Len(progress.daily_log) < MaxLog
  /\ CompleteTaskStep(task_id, hours_spent, difficulty_rating)

DoAdjustSchedule(adjustment_type) ==
  /\ adjustment_type = "increase_difficulty" => LongestDuration(schedule) <= MaxDuration
  /\ schedule' = AdjustSchedule(schedule, adjustment_type)
  /\ disk_schedule' = Some(schedule')
  /\ ret' = Returned("adjust_schedule", adjustment_type, adjustment_type)
  /\ before' = Snapshot
  /\ UNCHANGED <<today, progress, disk_progress, peer>>

DoGetRecommendations ==
  /\ ret' = Returned("get_recommendations", <<>>, GetRecommendations(progress, schedule))
  /\ before' = Snapshot
  /\ UNCHANGED <<today, schedule, progress, disk_schedule, disk_progress, peer>>

DoGetStats ==
  /\ IF GetStatsRaises(progress)
       THEN /\ ret' = Raised("get_stats", <<>>)
            /\ progress' = progress
       ELSE /\ progress' = GetStatsProgress(progress)
            /\ ret' = Returned("get_stats", <<>>,
                               [overall |-> StatsWithAverage(progress),
                                phases |-> PhaseSummaries(progress),
                                recommendations |-> GetRecommendations(progress', schedule)])
  /\ before' = Snapshot
  /\ UNCHANGED <<today, schedule, disk_schedule, disk_progress, peer>>

DoGetTodayTasks ==
  /\ ret' = Returned("get_today_tasks", <<>>, GetTodayTasks(schedule, today))
  /\ before' = Snapshot
  /\ UNCHANGED <<today, schedule, progress, disk_schedule, disk_progress, peer>>

Next ==
  \/ Tick
  \/ Load
  \/ \E a \in CompleteArgs : CompleteTask(a[1], a[2], a[3])
  \/ \E t \in AdjustmentTypes : DoAdjustSchedule(t)
  \/ DoGetRecommendations
  \/ DoGetStats
  \/ DoGetTodayTasks

Spec == Init /\ [][Next]_vars

\* Runs of complete_task calls alone, on any days, with a longer log
CompleteTaskInRun(task_id, hours_spent, difficulty_rating) ==
  /\ Len(progress.daily_log) < MaxStreakLog
  /\ CompleteTaskStep(task_id, hours_spent, difficulty_rating)

NextStreak ==
  \/ Tick
  \/ \E a \in CompleteArgs : CompleteTaskInRun(a[1], a[2], a[3])

SpecStreak == Init /\ [][NextStreak]_vars

\* Two processes over the same files.  Each constructs its LearningAdjuster
\* (both files read, lines 27-32) and calls complete_task (one write of the
\* progress file, line 90); nothing orders the steps of the two.
PeerLoad ==
  /\ peer' = Some([schedule |-> LoadJson(disk_schedule, EmptySchedule),
                   progress |-> LoadJson(disk_progress, EmptyProgress)])
  /\ ret' = Returned("peer_init", <<>>, <<>>)
  /\ before' = Snapshot
  /\ UNCHANGED <<today, schedule, progress, disk_schedule, disk_progress>>

PeerCompleteTask(task_id, hours_spent, difficulty_rating) ==
  /\ peer # None
  /\ Len(peer[1].progress.daily_log) < MaxLog
  /\ LET res == CompleteTaskResult(WorkingCopy(peer[1].progress, disk_progress),
                                   peer[1].schedule, today, task_id, hours_spent,
                                   difficulty_rating)
     IN /\ peer' = Some([peer[1] EXCEPT !.progress = res.progress])
        /\ disk_progress' = IF res.raised THEN disk_progress ELSE Some(res.progress)
        /\ ret' = IF res.raised THEN Raised("peer_complete_task", task_id)
                  ELSE Returned("peer_complete_task", task_id, "Task completed!")
  /\ before' = Snapshot
  /\ UNCHANGED <<today, schedule, progress, disk_schedule>>

NextRace ==
  \/ Load
  \/ PeerLoad
  \/ \E a \in CompleteArgs : CompleteTask(a[1], a[2], a[3])
  \/ \E a \in CompleteArgs : PeerCompleteTask(a[1], a[2], a[3])

SpecRace == Init /\ [][NextRace]_vars

----------------------------------------------------------------------------
(* Properties.  Each is a predicate on the state after the last operation     *)
(* (ret) and the stores as they were when it began (before).                  *)

StatsOf(prog) == Get(prog.overall_stats, EmptyStats)

StatsNow == StatsOf(progress)

StatsBefore == StatsOf(before.progress)

Completed == ret.op = "complete_task" /\ ret.status = "success"

CompleteRaised == ret.op = "complete_task" /\ ret.status = "error"

\* the entry the last complete_task call appended
NewEntry == progress.daily_log[Len(progress.daily_log)]

\* C1: every successful complete_task call increases total_tasks_completed by
\* exactly 1, and total_hours_studied by hours_spent when that is non-zero,
\* from every starting Progress state, the empty first-run store included.
C1_CompletionCounted ==
  Completed =>
    /\ Get(StatsNow.total_tasks_completed, 0)
         = Get(StatsBefore.total_tasks_completed, 0) + 1
    /\ Get(StatsNow.total_hours_studied, 0)
         = Get(StatsBefore.total_hours_studied, 0) + NewEntry.hours_spent

\* C2: after every complete_task call that returns, current_streak_days is at
\* most longest_streak_days in the stored overall_stats, in memory and in the
\* file, also when the call began with the streak above the longest streak.
C2_StreakAtMostLongest ==
  Completed =>
    /\ Get(StatsNow.current_streak_days, 0) <= Get(StatsNow.longest_streak_days, 0)
    /\ disk_progress # None
    /\ Get(StatsOf(disk_progress[1]).current_streak_days, 0)
         <= Get(StatsOf(disk_progress[1]).longest_streak_days, 0)

\* a complete_task call returned that began with the streak above the longest
C2_Witness ==
  /\ Completed
  /\ Get(StatsBefore.current_streak_days, 0) > Get(StatsBefore.longest_streak_days, 0)

\* C3: one complete_task call on a Progress store with no overall_stats and no
\* log entry (the first-run store) leaves current_streak_days = 1 and
\* longest_streak_days = 1 in the stored overall_stats.
C3_BootstrapStreak ==
  (Completed /\ before.progress.overall_stats = None
     /\ before.progress.daily_log = <<>>) =>
    /\ StatsNow.current_streak_days = Some(1)
    /\ StatsNow.longest_streak_days = Some(1)
    /\ disk_progress = Some(progress)

\* complete_task returned on the empty store of a first run
C3_Witness ==
  /\ Completed
  /\ before.progress = EmptyProgress
  /\ before.disk_progress = None

\* C4: when more than one day lies between the date of the last daily_log entry
\* and today, the next streak evaluation (the one complete_task runs) resets
\* current_streak_days to 0.
C4_GapResetsStreak ==
  (/\ Completed
   /\ before.progress.daily_log # <<>>
   /\ before.progress.daily_log[Len(before.progress.daily_log)].date.ok
   /\ today - before.progress.daily_log[Len(before.progress.daily_log)].date.day > 1)
  => StatsNow.current_streak_days = Some(0)

RateInRange(prog) ==
  \/ StatsOf(prog).completion_rate_percent = None
  \/ StatsOf(prog).completion_rate_percent[1] \in 0..1000

\* C5: completion_rate_percent, when present, is within [0, 100] in every
\* reachable state, in memory and in the file (the rate is held in tenths).
C5_RateInRange ==
  /\ RateInRange(progress)
  /\ disk_progress # None => RateInRange(disk_progress[1])

\* complete_task stored 100.0 for more completions than expected tasks
C5_Witness ==
  /\ Completed
  /\ StatsNow.completion_rate_percent = Some(1000)
  /\ StatsNow.completion_rate_percent # StatsBefore.completion_rate_percent
  /\ Get(StatsNow.total_tasks_completed, 0) > TotalScheduledPerWeek(schedule)
  /\ TotalScheduledPerWeek(schedule) > 0

\* the number of tasks of a schedule, counted task by task
RECURSIVE CountTasks(_)
CountTasks(days) ==
  IF days = <<>> THEN 0 ELSE Len(days[1].tasks) + CountTasks(Tail(days))

\* the rate the formula of C6 gives for c completions, T tasks a week and d
\* days elapsed, in tenths of a percent: min(100, 100 c / E) to one decimal,
\* E = floor(T * max(1, d / 7))
ClaimedRate(c, T, d) ==
  LET E == IF d <= 7 THEN T ELSE (T * d) \div 7
      tenths == (2 * 1000 * c + E) \div (2 * E)
  IN IF tenths > 1000 THEN 1000 ELSE tenths

\* C6: with start_date set and T > 0 scheduled tasks, complete_task stores
\* completion_rate_percent = min(100, 100 c / E) to one decimal, c being
\* total_tasks_completed after the increment; with start_date absent (or no
\* task scheduled) the stored rate is unchanged.
C6_RateFormula ==
  Completed =>
    LET T == CountTasks(before.schedule.daily_tasks)
        start_date == before.progress.start_date
        c == Get(StatsBefore.total_tasks_completed, 0) + 1
    IN IF T > 0 /\ start_date # None
         THEN StatsNow.completion_rate_percent
                = Some(ClaimedRate(c, T, (today - start_date[1].day) + 1))
         ELSE StatsNow.completion_rate_percent = StatsBefore.completion_rate_percent

\* C7: with a Schedule of zero tasks over all days, a complete_task call
\* (returning or raising) leaves completion_rate_percent, or its absence, as
\* it was, and a returning call saves it so.
C7_ZeroTasksKeepRate ==
  (ret.op = "complete_task" /\ CountTasks(before.schedule.daily_tasks) = 0) =>
    /\ StatsNow.completion_rate_percent = StatsBefore.completion_rate_percent
    /\ Completed =>
         /\ disk_progress # None
         /\ StatsOf(disk_progress[1]).completion_rate_percent
              = StatsBefore.completion_rate_percent

\* complete_task returned under a schedule that lists days but no task, on a
\* store that has a start_date and overall_stats
C7_Witness ==
  /\ Completed
  /\ CountTasks(before.schedule.daily_tasks) = 0
  /\ before.schedule.daily_tasks # <<>>
  /\ before.progress.start_date # None
  /\ before.progress.start_date[1].ok
  /\ before.progress.overall_stats # None

IsPrefix(s, t) == Len(s) <= Len(t) /\ SubSeq(t, 1, Len(s)) = s

DiskLog(disk) == LoadJson(disk, EmptyProgress).daily_log

\* C8: daily_log is append-only.  A complete_task call appends exactly one
\* entry, dated today and carrying the given task_id, after the entries that
\* were there; no other operation of the adjuster changes daily_log; and the
\* log in the file only ever grows at its end.
C8_LogAppendOnly ==
  /\ ret.op = "complete_task" =>
       /\ Len(progress.daily_log) = Len(before.progress.daily_log) + 1
       /\ IsPrefix(before.progress.daily_log, progress.daily_log)
       /\ NewEntry.task_id = ret.arg
       /\ NewEntry.date = DateStr(today)
  /\ ret.op \in {"adjust_schedule", "get_stats", "get_recommendations",
                 "get_today_tasks"} =>
       progress.daily_log = before.progress.daily_log
  /\ IsPrefix(DiskLog(before.disk_progress), DiskLog(disk_progress))

\* complete_task appended an entry for a task_id no schedule lists to a log
\* that already held an entry
C8_Witness ==
  /\ Completed
  /\ ret.arg = "zz"
  /\ Len(before.progress.daily_log) >= 1
  /\ DiskLog(disk_progress) = Append(before.progress.daily_log, NewEntry)

\* C9: the file never holds a partial update.  A complete_task call that
\* raises leaves the file as it was; one that returns leaves in the file the
\* new log entry together with the overall_stats changes derived from it (the
\* count, the hours and a streak of at least 1); no other operation writes it.
C9_NoPartialUpdate ==
  /\ ret.op # "complete_task" => disk_progress = before.disk_progress
  /\ CompleteRaised => disk_progress = before.disk_progress
  /\ Completed =>
       /\ disk_progress # None
       /\ DiskLog(disk_progress) = Append(before.progress.daily_log, NewEntry)
       /\ Get(StatsOf(disk_progress[1]).total_tasks_completed, 0)
            = Get(StatsBefore.total_tasks_completed, 0) + 1
       /\ Get(StatsOf(disk_progress[1]).total_hours_studied, 0)
            = Get(StatsBefore.total_hours_studied, 0) + NewEntry.hours_spent
       /\ Get(StatsOf(disk_progress[1]).current_streak_days, 0) >= 1

WorkloadAt(recs) == {i \in 1..Len(recs) : recs[i].type = "workload"}

\* C10: get_recommendations returns a workload recommendation reduce_tasks
\* iff the rate is below 70 (an absent rate counts as 0), increase_difficulty
\* iff it is above 90, none for a rate in [70, 90]; at most one workload
\* recommendation, and it is the first of the list.
C10_WorkloadThresholds ==
  ret.op = "get_recommendations" =>
    LET recs == ret.value
        rate == Get(StatsNow.completion_rate_percent, 0)
        w == WorkloadAt(recs)
    IN /\ (\E i \in w : recs[i].action = "reduce_tasks") <=> rate < 700
       /\ (\E i \in w : recs[i].action = "increase_difficulty") <=> rate > 900
       /\ rate \in 700..900 => w = {}
       /\ Cardinality(w) <= 1
       /\ w \subseteq {1}
       /\ \A i \in w : recs[i].action \in {"reduce_tasks", "increase_difficulty"}

\* get_recommendations returned motivation and progression recommendations
\* and no workload one at a rate of exactly 70
C10_Witness ==
  /\ ret.op = "get_recommendations"
  /\ StatsNow.completion_rate_percent = Some(700)
  /\ Len(ret.value) >= 2
  /\ WorkloadAt(ret.value) = {}

Adjusted(adjustment_type) ==
  ret.op = "adjust_schedule" /\ ret.arg = adjustment_type

\* the tasks of a list whose priority is not "low", in their order
RECURSIVE NotLow(_)
NotLow(tasks) ==
  IF tasks = <<>> THEN <<>>
  ELSE IF tasks[1].priority = Some("low") THEN NotLow(Tail(tasks))
  ELSE <<tasks[1]>> \o NotLow(Tail(tasks))

PhaseOf(sched) == Get(sched.current_phase, 1)

\* C13: adjust_schedule("advance_phase") sets current_phase to
\* min(current_phase + 1, 4) (from 4 it stays 4); under any adjust_schedule
\* call a current_phase in 1..4 stays in 1..4 and does not decrease.
C13_PhaseCapped ==
  ret.op = "adjust_schedule" =>
    /\ ret.arg = "advance_phase" =>
         /\ schedule.current_phase
              = Some(IF PhaseOf(before.schedule) >= 4 THEN 4
                     ELSE PhaseOf(before.schedule) + 1)
         /\ schedule.daily_tasks = before.schedule.daily_tasks
    /\ PhaseOf(before.schedule) \in 1..4 =>
         /\ PhaseOf(schedule) \in 1..4
         /\ PhaseOf(schedule) >= PhaseOf(before.schedule)

\* advance_phase ran at current_phase 4 and left it 4
C13_Witness ==
  /\ Adjusted("advance_phase")
  /\ before.schedule.current_phase = Some(4)
  /\ schedule.current_phase = Some(4)

\* C14: adjust_schedule with a type other than the three known ones leaves
\* current_phase and every day's tasks as they were, still writes the schedule
\* file, and returns success with the given label.
C14_UnknownTypeNoOp ==
  (ret.op = "adjust_schedule"
     /\ ret.arg \notin {"reduce_tasks", "increase_difficulty", "advance_phase"}) =>
    /\ schedule = before.schedule
    /\ disk_schedule = Some(schedule)
    /\ ret.status = "success"
    /\ ret.value = ret.arg

\* an unknown adjustment created the schedule file that did not exist
C14_Witness ==
  /\ Adjusted("unknown")
  /\ before.disk_schedule = None
  /\ disk_schedule = Some(EmptySchedule)

\* C15: get_stats is read-only: it leaves the in-memory Progress store and the
\* progress file as they were.
C15_GetStatsReadOnly ==
  ret.op = "get_stats" =>
    /\ progress = before.progress
    /\ disk_progress = before.disk_progress

CurrentStreak(stats) == Get(stats.current_streak_days, 0)

LongestStreak(stats) == Get(stats.longest_streak_days, 0)

\* C18: inside complete_task the last log entry is the one just appended and is
\* dated today, so the reset of the streak is never taken: under every
\* complete_task call, after a gap of any length too, current_streak_days and
\* longest_streak_days do not decrease.
C18_StreakNeverDecreases ==
  ret.op = "complete_task" =>
    /\ Completed => NewEntry.date = DateStr(today)
    /\ CurrentStreak(StatsNow) >= CurrentStreak(StatsBefore)
    /\ LongestStreak(StatsNow) >= LongestStreak(StatsBefore)

\* a completion more than one day after the last activity kept the streak
C18_Witness ==
  /\ Completed
  /\ before.progress.daily_log # <<>>
  /\ LET last == before.progress.daily_log[Len(before.progress.daily_log)].date
     IN last.ok /\ today - last.day > 1
  /\ CurrentStreak(StatsBefore) >= 1
  /\ CurrentStreak(StatsNow) = CurrentStreak(StatsBefore)

HasStartStreak(recommendations) ==
  \E i \in 1..Len(recommendations) : recommendations[i].action = "start_streak"

\* C20: after a complete_task call that returns, made with current_streak_days
\* absent or at least 0, current_streak_days is at least 1, and the
\* recommendations computed from that state hold no start_streak entry; nor
\* does any get_recommendations result returned while the streak is 1 or more.
C20_NoStartStreakAfterCompletion ==
  /\ (Completed /\ CurrentStreak(StatsBefore) >= 0) =>
       /\ CurrentStreak(StatsNow) >= 1
       /\ ~HasStartStreak(GetRecommendations(progress, schedule))
  /\ (ret.op = "get_recommendations" /\ CurrentStreak(StatsNow) >= 1) =>
       ~HasStartStreak(ret.value)

\* the first completion on an empty store took the streak from absent to 1
C20_Witness ==
  /\ Completed
  /\ before.progress.overall_stats = None
  /\ StatsNow.current_streak_days = Some(1)
  /\ ~HasStartStreak(GetRecommendations(progress, schedule))

\* the store was empty (no file) when the run of complete_task calls began:
\* every initial progress file of the model carries a start_date, a
\* phase_progress or a log entry of task "t0", and no call removes them
StartedEmpty ==
  /\ progress.start_date = None
  /\ progress.phase_progress = <<>>
  /\ \A i \in 1..Len(progress.daily_log) : progress.daily_log[i].task_id # "t0"

LogDays(daily_log) == {daily_log[i].date.day : i \in 1..Len(daily_log)}

\* the number of consecutive days ending on day d that are all in days
RECURSIVE RunEndingOn(_, _)
RunEndingOn(days, d) == IF d \in days THEN 1 + RunEndingOn(days, d - 1) ELSE 0

\* C16: after any sequence of complete_task calls that began on an empty
\* store, current_streak_days is the number of consecutive calendar days
\* ending today that each have a log entry, and so is at most the number of
\* distinct dates in daily_log.
C16_StreakIsConsecutiveDays ==
  (Completed /\ StartedEmpty) =>
    /\ CurrentStreak(StatsNow) = RunEndingOn(LogDays(progress.daily_log), today)
    /\ CurrentStreak(StatsNow) <= Cardinality(LogDays(progress.daily_log))

HasEntryOn(daily_log, d) ==
  \E i \in 1..Len(daily_log) : daily_log[i].date = DateStr(d)

\* C17: a complete_task call that returns adds exactly 1 to
\* current_streak_days when daily_log has an entry dated yesterday or the
\* streak was 0 (or absent) before the call, and leaves it as it was otherwise;
\* a second call on the same day, with an entry dated yesterday, adds 1 again.
C17_StreakIncrementRule ==
  Completed =>
    IF HasEntryOn(progress.daily_log, today - 1) \/ CurrentStreak(StatsBefore) = 0
      THEN StatsNow.current_streak_days = Some(CurrentStreak(StatsBefore) + 1)
      ELSE StatsNow.current_streak_days = StatsBefore.current_streak_days

\* the second completion of a day that follows an active day: the streak grew
\* again and is now above the number of dates in the log
C17_Witness ==
  /\ Completed
  /\ StartedEmpty
  /\ HasEntryOn(before.progress.daily_log, today)
  /\ HasEntryOn(before.progress.daily_log, today - 1)
  /\ CurrentStreak(StatsBefore) >= 2
  /\ CurrentStreak(StatsNow) = CurrentStreak(StatsBefore) + 1
  /\ CurrentStreak(StatsNow) > Cardinality(LogDays(progress.daily_log))

PeerCompleted == ret.op = "peer_complete_task" /\ ret.status = "success"

\* what a complete_task call writes when it starts from the store mem
WrittenFrom(mem, sched) ==
  {CompleteTaskResult(mem, sched, today, a[1], a[2], a[3]).progress :
     a \in {b \in CompleteArgs : b[1] = ret.arg}}

\* the log of the file is the writer's own log plus its new entry
LogFrom(mem) ==
  /\ Len(DiskLog(disk_progress)) = Len(mem.daily_log) + 1
  /\ IsPrefix(mem.daily_log, DiskLog(disk_progress))
  /\ DiskLog(disk_progress)[Len(DiskLog(disk_progress))].date = DateStr(today)
  /\ DiskLog(disk_progress)[Len(DiskLog(disk_progress))].task_id = ret.arg

\* the other process has written one entry since the writer loaded
OtherWroteSince(mem) ==
  /\ Len(DiskLog(before.disk_progress)) = Len(mem.daily_log) + 1
  /\ IsPrefix(mem.daily_log, DiskLog(before.disk_progress))

\* C19: with two processes that each load and then each complete a task, the
\* file after a complete_task call is what the calling process computes from
\* the store it loaded, whatever the other process wrote in between (last
\* write wins): the call returns success, and when the other process had added
\* an entry since, the file holds as many entries as before the call.
C19_LastWriteWins ==
  /\ PeerCompleted =>
       /\ disk_progress = Some(peer[1].progress)
       /\ peer[1].progress \in WrittenFrom(before.peer[1].progress, before.peer[1].schedule)
       /\ LogFrom(before.peer[1].progress)
       /\ OtherWroteSince(before.peer[1].progress) =>
            Len(DiskLog(disk_progress)) = Len(DiskLog(before.disk_progress))
  /\ Completed =>
       /\ disk_progress = Some(progress)
       /\ progress \in WrittenFrom(before.progress, before.schedule)
       /\ LogFrom(before.progress)
       /\ OtherWroteSince(before.progress) =>
            Len(DiskLog(disk_progress)) = Len(DiskLog(before.disk_progress))

\* load, load, save, save: the second process saved over an entry that the
\* first had written after both had loaded, and that entry is gone
C19_Witness ==
  /\ PeerCompleted
  /\ OtherWroteSince(before.peer[1].progress)
  /\ before.progress.daily_log = DiskLog(before.disk_progress)
  /\ LET lost == DiskLog(before.disk_progress)[Len(DiskLog(before.disk_progress))]
     IN \A i \in 1..Len(DiskLog(disk_progress)) : DiskLog(disk_progress)[i] # lost
  /\ StatsOf(LoadJson(disk_progress, EmptyProgress)).total_tasks_completed
       = Some(Get(StatsOf(before.peer[1].progress).total_tasks_completed, 0) + 1)
  /\ StatsOf(before.peer[1].progress).total_tasks_completed # None

====
